---- MODULE Spec2Model ----
(***************************************************************************)
(* Model of the NCSF common functions of SDATStuff:                        *)
(*   - the PSF/NCSF codec (MakeNCSF, CheckForValidPSF,                     *)
(*     GetProgramSectionFromPSF, GetTagsFromPSF),                          *)
(*   - the watchdog GetTime(player, loopCount, numberOfLoops) that runs    *)
(*     the TimerPlayer on its own thread,                                  *)
(*   - the two-pass GetTime(filename, sdat, sseq, tags, verbose, ...).     *)
(* Times are kept in tenths of a second (12.3s is 123), bytes as 0..255.   *)
(***************************************************************************)
EXTENDS Integers, Sequences, FiniteSets, TLC

VARIABLES
    \* ---- two-pass GetTime and the watchdog ----
    arg,          \* [verbose, numberOfLoops, fadeLoop, fadeOneShot]
    sdat,         \* [bank, vol, banks]: info of the SSEQ, and the BANK record table
    tags,         \* the TagList handed to GetTime
    player,       \* the current TimerPlayer object
    pc,           \* position of the calling thread
    pass,         \* 0 before Pass 1, 1 in Pass 1, 2 once Pass 2 is being configured
    loopCount,    \* watchdog parameter of the running call
    i,            \* watchdog loop counter
    doingLength,  \* watchdog local: copy of player->doLength
    mutex,        \* owner of the player's mutex
    worker,       \* state of the length thread of the current player
    length,       \* local `length` of the two-pass GetTime / of the watchdog
    oldLength,    \* local `oldLength`
    gotLength,    \* local `gotLength`
    sbnkInfo,     \* local `sbnkInfo` (waveArc[4] of the looked-up BANK entry)
    k,            \* loop counter of the wave archive loop
    ret,          \* watchdog local `length`, the value it returns
    ret1,         \* value returned by the Pass-1 watchdog call
    ret2,         \* value returned by the Pass-2 watchdog call
    bankIndex,    \* offsets at which BANKrecord.entries was indexed
    waveIndex,    \* offsets at which WAVEARCrecord.entries was indexed
    \* ---- codec ----
    cpc,          \* position of the codec scenario
    cin,          \* inputs of the codec scenario
    file,         \* PseudoReadFile::data
    outcome,      \* "ok", "range_error" or "runtime_error"
    program,      \* result of GetProgramSectionFromPSF
    psfTags       \* result of GetTagsFromPSF

evars == <<arg, sdat, tags, player, pc, pass, loopCount, i, doingLength, mutex,
           worker, length, oldLength, gotLength, sbnkInfo, k, ret, ret1, ret2,
           bankIndex, waveIndex>>
cvars == <<cpc, cin, file, outcome, program, psfTags>>
vars == <<evars, cvars>>

None == "none"

(***************************************************************************)
(* Time (TimerPlayer.h): elapsed seconds and END/LOOP.                     *)
(***************************************************************************)
Time(t, ty) == [time |-> t, type |-> ty]

\* static_cast<int>(double): truncation towards zero, on tenths of a second
CastInt(t) == IF t >= 0 THEN t \div 10 ELSE -((-t) \div 10)

\* std::ceil on tenths of a second, result in whole seconds
Ceil(t) == IF t >= 0 THEN (t + 9) \div 10 ELSE -((-t) \div 10)

Undetermined == Time(-10, "LOOP")

\* a Time variable that has not been assigned yet
NoTime == Time(0, "unset")

\* elapsed times the interpreter may report, in tenths of a second
TimeVals == {0, 3, 123}
TimeTypes == {"END", "LOOP"}

(***************************************************************************)
(* TagList                                                                 *)
(***************************************************************************)
TagExists(t, n) == n \in DOMAIN t
TagSet(t, n, v) == [m \in DOMAIN t \cup {n} |-> IF m = n THEN v ELSE t[m]]
TagRemove(t, n) == [m \in DOMAIN t \ {n} |-> t[m]]

\* stringify(uint32_t)
stringify(n) == ToString(n)

\* SecondsToString: minutes, a colon, two digits of seconds
SecondsToString(s) ==
    ToString(s \div 60) \o ":" \o ToString((s % 60) \div 10) \o ToString(s % 10)

(***************************************************************************)
(* INFO section: sentinel and tables                                       *)
(***************************************************************************)
NoRef == 65535

NumBanks == 1
NumWaveArcs == 2

BankRange == 0 .. NumBanks - 1
WaveArcRange == 0 .. NumWaveArcs - 1

\* waveArc[4] of a resolved BANK entry: in-range offsets or the sentinel
WaveArcChoices ==
    { <<NoRef, NoRef, NoRef, NoRef>>,
      <<1, NoRef, 0, NoRef>> }

\* what an out-of-range read of BANKrecord.entries may yield
GarbageWaveArcs ==
    { <<NoRef, NoRef, NoRef, NoRef>>, <<0, NoRef, NoRef, NoRef>>, <<7, NoRef, NoRef, NoRef>> }

Cnv_Scale_lut ==
    << -32768, -421, -361, -325, -300, -281, -265, -252,
       -240, -230, -221, -212, -205, -198, -192, -186,
       -180, -175, -170, -165, -161, -156, -152, -148,
       -145, -141, -138, -134, -131, -128, -125, -122,
       -120, -117, -114, -112, -110, -107, -105, -103,
       -100, -98, -96, -94, -92, -90, -88, -86,
       -85, -83, -81, -79, -78, -76, -74, -73,
       -71, -70, -68, -67, -65, -64, -62, -61,
       -60, -58, -57, -56, -54, -53, -52, -51,
       -49, -48, -47, -46, -45, -43, -42, -41,
       -40, -39, -38, -37, -36, -35, -34, -33,
       -32, -31, -30, -29, -28, -27, -26, -25,
       -24, -23, -23, -22, -21, -20, -19, -18,
       -17, -17, -16, -15, -14, -13, -12, -12,
       -11, -10, -9, -9, -8, -7, -6, -6,
       -5, -4, -3, -3, -2, -1, -1, 0 >>

Cnv_Scale(scale) ==
    LET s == IF scale >= 128 THEN 127 ELSE scale
    IN  Cnv_Scale_lut[s + 1]

(***************************************************************************)
(* TimerPlayer                                                             *)
(***************************************************************************)
NewTimerPlayer ==
    [ loops |-> 0, maxSeconds |-> 0, doNotes |-> FALSE, sseqVol |-> 0,
      sbnk |-> None, swar |-> <<None, None, None, None>>,
      length |-> Time(0, "END"), doLength |-> FALSE, setup |-> FALSE ]

\* poll bounds and wall-clock ceilings of the two passes
Pass1Polls == 20
Pass2Polls == 40
Pass1MaxSeconds == 6000
Pass2Margin == 30

(***************************************************************************)
(* The length thread (TimerPlayer): it runs the interpreter to completion, *)
(* then stores its result and clears doLength under the mutex, or stops    *)
(* when it finds doLength cleared.                                         *)
(***************************************************************************)
StartLengthThread(p) == [p EXCEPT !.doLength = TRUE]

Worker_Finish ==
    /\ worker = "running"
    /\ mutex = None
    /\ player.doLength
    /\ \E t \in TimeVals, ty \in TimeTypes :
          player' = [player EXCEPT !.length = Time(t, ty), !.doLength = FALSE]
    /\ worker' = "finished"
    /\ UNCHANGED <<arg, sdat, tags, pc, pass, loopCount, i, doingLength, mutex,
                   length, oldLength, gotLength, sbnkInfo, k, ret, ret1, ret2,
                   bankIndex, waveIndex>>
    /\ UNCHANGED cvars

Worker_Cancel ==
    /\ worker = "running"
    /\ mutex = None
    /\ ~player.doLength
    /\ worker' = "cancelled"
    /\ UNCHANGED <<arg, sdat, tags, player, pc, pass, loopCount, i, doingLength,
                   mutex, length, oldLength, gotLength, sbnkInfo, k, ret, ret1,
                   ret2, bankIndex, waveIndex>>
    /\ UNCHANGED cvars

\* WaitForThread returns once the thread has ended
ThreadEnded == worker \in {"finished", "cancelled"}

(***************************************************************************)
(* Watchdog: GetTime(player, loopCount, numberOfLoops)                     *)
(***************************************************************************)
\* the for-loop test, and the `if (i == loopCount)` reached when it fails
AfterLoop(n) == IF n = loopCount THEN "wd_stoplock" ELSE "wd_join"
LoopTest(n) == IF n < loopCount THEN "wd_lock" ELSE AfterLoop(n)

\* frame of a watchdog step: everything but pc, i, doingLength, mutex, player,
\* worker and ret
WdFrame == /\ UNCHANGED <<arg, sdat, tags, pass, loopCount, length, oldLength,
                          gotLength, sbnkInfo, k, ret1, ret2, bankIndex, waveIndex>>
           /\ UNCHANGED cvars

\* lines 286-289
Watchdog_Start ==
    /\ pc = "wd_start"
    /\ player' = StartLengthThread([player EXCEPT !.loops = arg.numberOfLoops])
    /\ worker' = "running"
    /\ i' = 0
    /\ pc' = LoopTest(0)
    /\ UNCHANGED <<doingLength, mutex, ret>>
    /\ WdFrame

\* line 291
Watchdog_PollLock ==
    /\ pc = "wd_lock"
    /\ mutex = None
    /\ mutex' = "caller"
    /\ pc' = "wd_read"
    /\ UNCHANGED <<player, worker, i, doingLength, ret>>
    /\ WdFrame

\* line 292
Watchdog_PollRead ==
    /\ pc = "wd_read"
    /\ doingLength' = player.doLength
    /\ pc' = "wd_unlock"
    /\ UNCHANGED <<player, worker, i, mutex, ret>>
    /\ WdFrame

\* line 293
Watchdog_PollUnlock ==
    /\ pc = "wd_unlock"
    /\ mutex' = None
    /\ pc' = "wd_branch"
    /\ UNCHANGED <<player, worker, i, doingLength, ret>>
    /\ WdFrame

\* lines 294-306 and the loop increment: sleep and go round, or break
Watchdog_SleepOrBreak ==
    /\ pc = "wd_branch"
    /\ IF doingLength
         THEN /\ i' = i + 1
              /\ pc' = LoopTest(i + 1)
         ELSE /\ i' = i
              /\ pc' = AfterLoop(i)
    /\ UNCHANGED <<player, worker, doingLength, mutex, ret>>
    /\ WdFrame

\* line 311
Watchdog_StopLock ==
    /\ pc = "wd_stoplock"
    /\ mutex = None
    /\ mutex' = "caller"
    /\ pc' = "wd_stopwrite"
    /\ UNCHANGED <<player, worker, i, doingLength, ret>>
    /\ WdFrame

\* line 312
Watchdog_StopWrite ==
    /\ pc = "wd_stopwrite"
    /\ player' = [player EXCEPT !.doLength = FALSE]
    /\ pc' = "wd_stopunlock"
    /\ UNCHANGED <<worker, i, doingLength, mutex, ret>>
    /\ WdFrame

\* line 313
Watchdog_StopUnlock ==
    /\ pc = "wd_stopunlock"
    /\ mutex' = None
    /\ pc' = "wd_stopjoin"
    /\ UNCHANGED <<player, worker, i, doingLength, ret>>
    /\ WdFrame

\* the stop path returning without waiting for the thread
Watchdog_StopJoin_NoWait ==
    /\ pc = "wd_stopjoin"
    /\ ret' = Undetermined
    /\ pc' = "wd_ret"
    /\ UNCHANGED <<player, worker, i, doingLength, mutex>>
    /\ WdFrame

\* lines 314-315
Watchdog_StopJoin ==
    /\ pc = "wd_stopjoin"
    /\ ThreadEnded
    /\ ret' = Undetermined
    /\ pc' = "wd_ret"
    /\ UNCHANGED <<player, worker, i, doingLength, mutex>>
    /\ WdFrame

\* line 319
Watchdog_Join ==
    /\ pc = "wd_join"
    /\ ThreadEnded
    /\ pc' = "wd_readlen"
    /\ UNCHANGED <<player, worker, i, doingLength, mutex, ret>>
    /\ WdFrame

\* line 320
Watchdog_ReadLength ==
    /\ pc = "wd_readlen"
    /\ ret' = player.length
    /\ pc' = "wd_ret"
    /\ UNCHANGED <<player, worker, i, doingLength, mutex>>
    /\ WdFrame

(***************************************************************************)
(* Two-pass GetTime(filename, sdat, sseq, tags, verbose, numberOfLoops,    *)
(* fadeLoop, fadeOneShot)                                                  *)
(***************************************************************************)
\* static_cast<int>(length.time) != -1
Determined(len) == CastInt(len.time) # -1

\* Pass 2 for any determined time, whatever its type
PassTwoWanted_AnyType(len) == Determined(len)

\* line 366
PassTwoWanted(len) == Determined(len) /\ len.type = "END"

\* the rounding without the one-second minimum
LengthSeconds_NoMinimum(len) == Ceil(len.time)

\* lines 391-393: the whole seconds handed to SecondsToString
LengthSeconds(len) ==
    LET t == IF CastInt(len.time) = 0 THEN 10 ELSE len.time
    IN  Ceil(t)

\* lines 387-390
FadeFor(len) == IF len.type = "LOOP" THEN arg.fadeLoop ELSE arg.fadeOneShot

\* lines 385-407 on the TagList
DeriveTags(t, len, verbose) ==
    IF Determined(len)
      THEN TagSet(TagSet(t, "fade", stringify(FadeFor(len))),
                  "length", SecondsToString(LengthSeconds(len)))
      ELSE IF verbose
             THEN TagRemove(TagRemove(t, "fade"), "length")
             ELSE t

\* lines 358-363, up to the call of the watchdog
GetTime_Begin ==
    /\ pc = "start"
    /\ player' = [NewTimerPlayer EXCEPT !.setup = TRUE, !.maxSeconds = Pass1MaxSeconds * 10]
    /\ loopCount' = Pass1Polls
    /\ pass' = 1
    /\ pc' = "wd_start"
    /\ UNCHANGED <<arg, sdat, tags, i, doingLength, mutex, worker, length, oldLength,
                   gotLength, sbnkInfo, k, ret, ret1, ret2, bankIndex, waveIndex>>
    /\ UNCHANGED cvars

\* line 322, and the assignment of the returned value at line 363 or 379
Watchdog_Return ==
    /\ pc = "wd_ret"
    /\ length' = ret
    /\ IF pass = 1
         THEN ret1' = ret /\ ret2' = ret2 /\ pc' = "decide"
         ELSE ret2' = ret /\ ret1' = ret1 /\ pc' = "after2"
    /\ UNCHANGED <<arg, sdat, tags, player, pass, loopCount, i, doingLength, mutex,
                   worker, oldLength, gotLength, sbnkInfo, k, ret, bankIndex, waveIndex>>
    /\ UNCHANGED cvars

\* lines 366-370
GetTime_Decide ==
    /\ pc = "decide"
    /\ IF PassTwoWanted(length)
         THEN /\ player' = [NewTimerPlayer EXCEPT !.sseqVol = Cnv_Scale(sdat.vol),
                                                  !.setup = TRUE]
              /\ worker' = None
              /\ pass' = 2
              /\ pc' = "p2_bank"
         ELSE /\ pc' = "derive"
              /\ UNCHANGED <<player, worker, pass>>
    /\ UNCHANGED <<arg, sdat, tags, loopCount, i, doingLength, mutex, length, oldLength,
                   gotLength, sbnkInfo, k, ret, ret1, ret2, bankIndex, waveIndex>>
    /\ UNCHANGED cvars

\* lines 371-372: BANKrecord.entries[info.bank]; an offset outside the table
\* is undefined behaviour: the process dies or the entry read is garbage
GetTime_BankLookup ==
    /\ pc = "p2_bank"
    /\ bankIndex' = bankIndex \cup {sdat.bank}
    /\ IF sdat.bank \in BankRange
         THEN /\ sbnkInfo' = sdat.banks[sdat.bank + 1]
              /\ player' = [player EXCEPT !.sbnk = <<"sbnk", sdat.bank>>]
              /\ pc' = "p2_wave"
         ELSE \/ /\ pc' = "crashed"
                 /\ UNCHANGED <<sbnkInfo, player>>
              \/ /\ sbnkInfo' \in GarbageWaveArcs
                 /\ player' = [player EXCEPT !.sbnk = "garbage"]
                 /\ pc' = "p2_wave"
    /\ k' = 0
    /\ UNCHANGED <<arg, sdat, tags, pass, loopCount, i, doingLength, mutex, worker,
                   length, oldLength, gotLength, ret, ret1, ret2, waveIndex>>
    /\ UNCHANGED cvars

\* lines 373-375, one round of the loop
GetTime_WaveArc ==
    /\ pc = "p2_wave"
    /\ k < 4
    /\ LET w == sbnkInfo[k + 1] IN
         IF w # NoRef
           THEN /\ waveIndex' = waveIndex \cup {w}
                /\ IF w \in WaveArcRange
                     THEN /\ player' = [player EXCEPT !.swar[k + 1] = <<"swar", w>>]
                          /\ pc' = IF k + 1 < 4 THEN "p2_wave" ELSE "p2_run"
                     ELSE \/ /\ pc' = "crashed"
                             /\ UNCHANGED player
                          \/ /\ player' = [player EXCEPT !.swar[k + 1] = "garbage"]
                             /\ pc' = IF k + 1 < 4 THEN "p2_wave" ELSE "p2_run"
           ELSE /\ pc' = IF k + 1 < 4 THEN "p2_wave" ELSE "p2_run"
                /\ UNCHANGED <<waveIndex, player>>
    /\ k' = k + 1
    /\ UNCHANGED <<arg, sdat, tags, pass, loopCount, i, doingLength, mutex, worker,
                   length, oldLength, gotLength, sbnkInfo, ret, ret1, ret2, bankIndex>>
    /\ UNCHANGED cvars

\* lines 376-379, up to the call of the watchdog
GetTime_RunPassTwo ==
    /\ pc = "p2_run"
    /\ player' = [player EXCEPT !.maxSeconds = length.time + Pass2Margin * 10,
                                !.doNotes = TRUE]
    /\ oldLength' = length
    /\ loopCount' = Pass2Polls
    /\ pc' = "wd_start"
    /\ UNCHANGED <<arg, sdat, tags, pass, i, doingLength, mutex, worker, length,
                   gotLength, sbnkInfo, k, ret, ret1, ret2, bankIndex, waveIndex>>
    /\ UNCHANGED cvars

\* lines 380-383
GetTime_AfterPassTwo ==
    /\ pc = "after2"
    /\ IF Determined(length)
         THEN gotLength' = TRUE /\ length' = length
         ELSE length' = oldLength /\ gotLength' = gotLength
    /\ pc' = "derive"
    /\ UNCHANGED <<arg, sdat, tags, player, pass, loopCount, i, doingLength, mutex,
                   worker, oldLength, sbnkInfo, k, ret, ret1, ret2, bankIndex, waveIndex>>
    /\ UNCHANGED cvars

\* lines 385-408
GetTime_Derive ==
    /\ pc = "derive"
    /\ tags' = DeriveTags(tags, length, arg.verbose)
    /\ length' = IF Determined(length) /\ CastInt(length.time) = 0
                   THEN [length EXCEPT !.time = 10] ELSE length
    /\ pc' = "done"
    /\ UNCHANGED <<arg, sdat, player, pass, loopCount, i, doingLength, mutex, worker,
                   oldLength, gotLength, sbnkInfo, k, ret, ret1, ret2, bankIndex,
                   waveIndex>>
    /\ UNCHANGED cvars

(***************************************************************************)
(* Inputs of the duration engine                                           *)
(***************************************************************************)
VolVals == {64, 200}
FadeLoopVals == {10000}
FadeOneShotVals == {0}
LoopsVals == {2}
StaleTags == { [n \in S |-> "stale"] : S \in {{}, {"length"}, {"fade", "length"}} }

CodecIdle ==
    /\ cpc = "idle"
    /\ cin = None
    /\ file = << >>
    /\ outcome = None
    /\ program = << >>
    /\ psfTags = << >>

EngineIdle ==
    /\ arg = None
    /\ sdat = None
    /\ tags = << >>
    /\ player = None
    /\ pc = "idle"
    /\ pass = 0
    /\ loopCount = 0
    /\ i = 0
    /\ doingLength = FALSE
    /\ mutex = None
    /\ worker = None
    /\ length = NoTime
    /\ oldLength = NoTime
    /\ gotLength = FALSE
    /\ sbnkInfo = None
    /\ k = 0
    /\ ret = NoTime
    /\ ret1 = NoTime
    /\ ret2 = NoTime
    /\ bankIndex = {}
    /\ waveIndex = {}

Init ==
    /\ arg \in [verbose : BOOLEAN, numberOfLoops : LoopsVals,
                fadeLoop : FadeLoopVals, fadeOneShot : FadeOneShotVals]
    /\ sdat \in [bank : BankRange \cup {NoRef}, vol : VolVals,
                 banks : [1 .. NumBanks -> WaveArcChoices]]
    /\ tags \in StaleTags
    /\ player = None
    /\ pc = "start"
    /\ pass = 0
    /\ loopCount = 0
    /\ i = 0
    /\ doingLength = FALSE
    /\ mutex = None
    /\ worker = None
    /\ length = NoTime
    /\ oldLength = NoTime
    /\ gotLength = FALSE
    /\ sbnkInfo = None
    /\ k = 0
    /\ ret = NoTime
    /\ ret1 = NoTime
    /\ ret2 = NoTime
    /\ bankIndex = {}
    /\ waveIndex = {}
    /\ CodecIdle

Next ==
    \/ GetTime_Begin
    \/ Watchdog_Start
    \/ Watchdog_PollLock
    \/ Watchdog_PollRead
    \/ Watchdog_PollUnlock
    \/ Watchdog_SleepOrBreak
    \/ Watchdog_StopLock
    \/ Watchdog_StopWrite
    \/ Watchdog_StopUnlock
    \/ Watchdog_StopJoin
    \/ Watchdog_Join
    \/ Watchdog_ReadLength
    \/ Watchdog_Return
    \/ Worker_Finish
    \/ Worker_Cancel
    \/ GetTime_Decide
    \/ GetTime_BankLookup
    \/ GetTime_WaveArc
    \/ GetTime_RunPassTwo
    \/ GetTime_AfterPassTwo
    \/ GetTime_Derive

Spec == Init /\ [][Next]_vars

(***************************************************************************)
(* Bytes, little-endian integers, zlib                                     *)
(***************************************************************************)
\* A uint32_t is kept as <<high 16 bits, low 16 bits>>.
W32(n) == << n \div 65536, n % 65536 >>
Add32(x, y) ==
    LET lo == x[2] + y[2]
    IN  << (x[1] + y[1] + (lo \div 65536)) % 65536, lo % 65536 >>
IsZero32(x) == x[1] = 0 /\ x[2] = 0
\* n < x for a size_t n below 2^16 and a uint32_t x
LessThan32(n, x) == x[1] > 0 \/ n < x[2]
\* the value of a uint32_t below 2^31
Nat32(x) == x[1] * 65536 + x[2]

Zeros(n) == IF n <= 0 THEN << >> ELSE [ j \in 1 .. n |-> 0 ]

Take(s, n) == SubSeq(s, 1, IF n < Len(s) THEN n ELSE Len(s))
Drop(s, n) == SubSeq(s, n + 1, Len(s))

\* PseudoWrite::WriteLE<uint32_t>
LE32(x) == << x[2] % 256, x[2] \div 256, x[1] % 256, x[1] \div 256 >>

\* ReadLE<uint32_t> at 0-based offset pos
ReadLE32(d, pos) ==
    << d[pos + 3] + 256 * d[pos + 4], d[pos + 1] + 256 * d[pos + 2] >>

\* exclusive or of two 16-bit values, bit by bit
Xor16(a, b) ==
    LET X(n) == ((((a \div (2 ^ n)) % 2) + ((b \div (2 ^ n)) % 2)) % 2) * (2 ^ n)
    IN  X(0) + X(1) + X(2) + X(3) + X(4) + X(5) + X(6) + X(7)
        + X(8) + X(9) + X(10) + X(11) + X(12) + X(13) + X(14) + X(15)

Xor32(x, y) == << Xor16(x[1], y[1]), Xor16(x[2], y[2]) >>

\* one bit of the reflected CRC-32 (polynomial 0xEDB88320)
CrcStep(c) ==
    LET half == << c[1] \div 2, (c[2] \div 2) + 32768 * (c[1] % 2) >>
    IN  IF c[2] % 2 = 1 THEN Xor32(half, <<60856, 33568>>) ELSE half

CrcByte(c, x) ==
    CrcStep(CrcStep(CrcStep(CrcStep(CrcStep(CrcStep(CrcStep(CrcStep(
        Xor32(c, <<0, x>>)))))))))

CrcBytes(c, d) ==
    LET f[j \in 0 .. Len(d)] ==
            IF j = 0 THEN c
            ELSE LET prev == f[j - 1]
                 IN  \* the test evaluates prev before the eight CrcSteps use it
                     IF prev[1] >= 0 THEN CrcByte(prev, d[j]) ELSE prev
    IN  f[Len(d)]

\* zlib crc32 over a byte string, from crc32(0, Z_NULL, 0)
crc32(d) == Xor32(CrcBytes(<<65535, 65535>>, d), <<65535, 65535>>)

\* zlib adler32 as <<b, a>>
adler32(d) ==
    LET f[j \in 0 .. Len(d)] ==
            IF j = 0 THEN <<0, 1>>
            ELSE LET a2 == (f[j - 1][2] + d[j]) % 65521
                 IN  << (f[j - 1][1] + a2) % 65521, a2 >>
    IN  f[Len(d)]

BE32(x) == << x[1] \div 256, x[1] % 256, x[2] \div 256, x[2] % 256 >>

\* compress2: a zlib stream holding the data (header, one stored deflate
\* block with LEN and NLEN, the bytes, Adler-32)
compress2(d) ==
    << 120, 218, 1, Len(d) % 256, Len(d) \div 256,
       255 - (Len(d) % 256), 255 - (Len(d) \div 256) >> \o d \o BE32(adler32(d))

\* uncompress into dest (capacity Len(dest)): the bytes that fit are written,
\* the rest of dest is left as it was
uncompress(dest, c) ==
    LET n    == c[4] + 256 * c[5]
        data == SubSeq(c, 8, 7 + n)
        m    == IF n < Len(dest) THEN n ELSE Len(dest)
    IN  Take(data, m) \o Drop(dest, m)

\* std::vector::resize, new elements zero
Resize(v, n) == IF n <= Len(v) THEN Take(v, n) ELSE v \o Zeros(n - Len(v))

(***************************************************************************)
(* MakeNCSF                                                                *)
(***************************************************************************)
NCSFVersion == 37

PSFMagic == <<80, 83, 70>>
TagMarker == <<91, 84, 65, 71, 93>>

RECURSIVE TagBlock(_)
TagBlock(lines) ==
    IF lines = << >> THEN << >>
    ELSE Head(lines) \o <<10>> \o TagBlock(Tail(lines))

\* the bytes MakeNCSF writes to the file
MakeNCSFBytes(reservedSectionData, programSectionData, tagLines) ==
    LET programCompressedData ==
            IF programSectionData = << >> THEN << >> ELSE compress2(programSectionData)
        programCompressedSize == Len(programCompressedData)
    IN  PSFMagic \o <<NCSFVersion>>
        \o LE32(W32(Len(reservedSectionData)))
        \o LE32(W32(programCompressedSize))
        \o (IF programCompressedSize # 0 THEN LE32(crc32(programCompressedData))
                                        ELSE LE32(W32(0)))
        \o reservedSectionData
        \o programCompressedData
        \o (IF tagLines # << >> THEN TagMarker \o TagBlock(tagLines) ELSE << >>)

(***************************************************************************)
(* CheckForValidPSF                                                        *)
(***************************************************************************)
\* the magic compared before any size check
CheckForValidPSF_MagicFirst(data, versionByte) ==
    IF Len(data) >= 3 /\ (data[1] # 80 \/ data[2] # 83 \/ data[3] # 70) THEN "runtime_error"
    ELSE IF Len(data) < 4 THEN "range_error"
    ELSE IF data[4] # versionByte THEN "runtime_error"
    ELSE IF Len(data) < 16 THEN "range_error"
    ELSE LET reservedSize == ReadLE32(data, 4)
             programCompressedSize == ReadLE32(data, 8)
         IN  IF ~IsZero32(reservedSize)
                   /\ LessThan32(Len(data), Add32(reservedSize, W32(16)))
               THEN "range_error"
             ELSE IF ~IsZero32(programCompressedSize)
                     /\ LessThan32(Len(data),
                                   Add32(Add32(reservedSize, programCompressedSize), W32(16)))
               THEN "range_error"
             ELSE "ok"

\* the program section checked without the reserved section before it
CheckForValidPSF_NoReserved(data, versionByte) ==
    IF Len(data) < 4 THEN "range_error"
    ELSE IF data[1] # 80 \/ data[2] # 83 \/ data[3] # 70 THEN "runtime_error"
    ELSE IF data[4] # versionByte THEN "runtime_error"
    ELSE IF Len(data) < 16 THEN "range_error"
    ELSE LET reservedSize == ReadLE32(data, 4)
             programCompressedSize == ReadLE32(data, 8)
         IN  IF ~IsZero32(reservedSize)
                   /\ LessThan32(Len(data), Add32(reservedSize, W32(16)))
               THEN "range_error"
             ELSE IF ~IsZero32(programCompressedSize)
                     /\ LessThan32(Len(data), Add32(programCompressedSize, W32(16)))
               THEN "range_error"
             ELSE "ok"

CheckForValidPSF(data, versionByte) ==
    IF Len(data) < 4 THEN "range_error"
    ELSE IF data[1] # 80 \/ data[2] # 83 \/ data[3] # 70 THEN "runtime_error"
    ELSE IF data[4] # versionByte THEN "runtime_error"
    ELSE IF Len(data) < 16 THEN "range_error"
    ELSE LET reservedSize == ReadLE32(data, 4)
             programCompressedSize == ReadLE32(data, 8)
         IN  IF ~IsZero32(reservedSize)
                   /\ LessThan32(Len(data), Add32(reservedSize, W32(16)))
               THEN "range_error"
             ELSE IF ~IsZero32(programCompressedSize)
                     /\ LessThan32(Len(data),
                                   Add32(Add32(reservedSize, programCompressedSize), W32(16)))
               THEN "range_error"
             ELSE "ok"

(***************************************************************************)
(* GetProgramSectionFromPSF                                                *)
(***************************************************************************)
\* the extraction with addHeaderSize ignored
ProgramSection_NoHeaderAdd(data, programHeaderSize, programSizeOffset, addHeaderSize) ==
    LET reservedSize == Nat32(ReadLE32(data, 4))
        programCompressedSize == Nat32(ReadLE32(data, 8))
    IN  IF programCompressedSize = 0 THEN << >>
        ELSE
          LET compressed == SubSeq(data, 16 + reservedSize + 1,
                                   16 + reservedSize + programCompressedSize)
              first == uncompress(Zeros(programHeaderSize), compressed)
              size  == Nat32(ReadLE32(first, programSizeOffset))
          IN  uncompress(Resize(first, size), compressed)

\* lines 116-147, for a file CheckForValidPSF accepted
ProgramSection(data, programHeaderSize, programSizeOffset, addHeaderSize) ==
    LET reservedSize == Nat32(ReadLE32(data, 4))
        programCompressedSize == Nat32(ReadLE32(data, 8))
    IN  IF programCompressedSize = 0 THEN << >>
        ELSE
          LET compressed == SubSeq(data, 16 + reservedSize + 1,
                                   16 + reservedSize + programCompressedSize)
              first == uncompress(Zeros(programHeaderSize), compressed)
              size0 == Nat32(ReadLE32(first, programSizeOffset))
              size  == IF addHeaderSize THEN size0 + programHeaderSize ELSE size0
          IN  uncompress(Resize(first, size), compressed)

(***************************************************************************)
(* GetTagsFromPSF                                                          *)
(***************************************************************************)
\* IsWhitespace
isWhitespace(x) == x >= 1 /\ x <= 32

RECURSIVE LeftTrimWhitespace(_)
LeftTrimWhitespace(orig) ==
    IF orig # << >> /\ isWhitespace(Head(orig))
      THEN LeftTrimWhitespace(Tail(orig))
      ELSE orig

RECURSIVE RightTrimWhitespace(_)
RightTrimWhitespace(orig) ==
    IF orig # << >> /\ isWhitespace(orig[Len(orig)])
      THEN RightTrimWhitespace(SubSeq(orig, 1, Len(orig) - 1))
      ELSE orig

TrimWhitespace(orig) == LeftTrimWhitespace(RightTrimWhitespace(orig))

\* PseudoReadFile::GetNextOffset(start, pattern): 0-based offset of the first
\* match at or after start, or -1
GetNextOffset(data, start, pattern) ==
    LET hits == { j \in start .. Len(data) - Len(pattern) :
                    SubSeq(data, j + 1, j + Len(pattern)) = pattern }
    IN  IF hits = {} THEN -1
        ELSE CHOOSE j \in hits : \A h \in hits : j <= h

\* lines 201-211: what a 0x0A does to the TagList
EndOfRecord(t, name, value) ==
    IF name # << >> /\ value # << >>
      THEN LET n == TrimWhitespace(name)
               v == TrimWhitespace(value)
           IN  IF TagExists(t, n)
                 THEN TagSet(t, n, t[n] \o <<10>> \o v)
                 ELSE TagSet(t, n, v)
      ELSE t

\* lines 198-225: the loop over the bytes after the marker
RECURSIVE ParseTags(_, _, _, _, _)
ParseTags(bytes, name, value, onName, t) ==
    IF bytes = << >> THEN t
    ELSE LET curr == Head(bytes) IN
         IF curr = 10
           THEN ParseTags(Tail(bytes), << >>, << >>, TRUE, EndOfRecord(t, name, value))
         ELSE IF curr = 61
           THEN ParseTags(Tail(bytes), name, value, FALSE, t)
         ELSE IF onName
           THEN ParseTags(Tail(bytes), name \o <<curr>>, value, onName, t)
           ELSE ParseTags(Tail(bytes), name, value \o <<curr>>, onName, t)

\* lines 184-228, for a file CheckForValidPSF accepted
TagsOf(data) ==
    LET TagOffset == GetNextOffset(data, 0, TagMarker)
    IN  IF TagOffset # -1
          THEN ParseTags(Drop(data, TagOffset + 5), << >>, << >>, TRUE, << >>)
          ELSE << >>

(***************************************************************************)
(* Codec operations                                                        *)
(***************************************************************************)
MakeNCSF ==
    /\ cpc = "start"
    /\ file' = MakeNCSFBytes(cin.reserved, cin.programData, cin.tagLines)
    /\ cpc' = "built"
    /\ UNCHANGED <<cin, outcome, program, psfTags>>
    /\ UNCHANGED evars

GetProgramSectionFromPSF ==
    /\ cpc = "built"
    /\ outcome' = CheckForValidPSF(file, cin.versionByte)
    /\ program' = IF outcome' = "ok"
                    THEN ProgramSection(file, cin.programHeaderSize,
                                        cin.programSizeOffset, cin.addHeaderSize)
                    ELSE << >>
    /\ cpc' = "extracted"
    /\ UNCHANGED <<cin, file, psfTags>>
    /\ UNCHANGED evars

GetTagsFromPSF ==
    /\ cpc = "built"
    /\ outcome' = CheckForValidPSF(file, cin.versionByte)
    /\ psfTags' = IF outcome' = "ok" THEN TagsOf(file) ELSE << >>
    /\ cpc' = "tagged"
    /\ UNCHANGED <<cin, file, program>>
    /\ UNCHANGED evars

\* CheckForValidPSF called on a buffer as read from disk
Validate ==
    /\ cpc = "raw"
    /\ outcome' = CheckForValidPSF(file, cin.versionByte)
    /\ cpc' = "checked"
    /\ UNCHANGED <<cin, file, program, psfTags>>
    /\ UNCHANGED evars

(***************************************************************************)
(* Inputs of the codec                                                     *)
(***************************************************************************)
MaxPayload == 2
MaxLineLen == 3
MaxTags == 1
MaxBufLen == 19

RECURSIVE SeqsUpTo(_, _)
SeqsUpTo(S, n) ==
    IF n = 0 THEN { << >> }
    ELSE LET shorter == SeqsUpTo(S, n - 1)
         IN  shorter \cup { <<x>> \o t : x \in S, t \in { u \in shorter : Len(u) = n - 1 } }

VersionVals == {NCSFVersion, 36}
ReservedVals == { << >>, <<7, 8>> }

\* (programHeaderSize, programSizeOffset, addHeaderSize) of the callers
ParamVals == { <<4, 0, FALSE>>, <<4, 0, TRUE>>, <<6, 2, FALSE>> }

\* programs with a size field at the offset, and programs shorter than the header
ProgramsFor(hdr, off) ==
    { << >>, <<1>>, <<2>>, <<2, 0>> }
    \cup { Zeros(off) \o LE32(W32(sz)) \o Zeros(hdr - off - 4) \o payload :
             sz \in 0 .. hdr + MaxPayload + 1, payload \in SeqsUpTo({0, 9}, MaxPayload) }

\* tag lines over 'a', ' ' and '='
TagLineVals == SeqsUpTo({97, 32, 61}, MaxLineLen)
FewTagLists == { << >>, << <<97, 61, 97>> >>, << <<97, 61, 98>>, <<97, 61, 32, 99>> >> }

CodecInputsFor(pv) ==
    { [ reserved |-> r, programData |-> p, tagLines |-> tl, versionByte |-> v,
        programHeaderSize |-> pv[1], programSizeOffset |-> pv[2], addHeaderSize |-> pv[3] ] :
        p \in ProgramsFor(pv[1], pv[2]), r \in ReservedVals, tl \in FewTagLists,
        v \in VersionVals }

CodecInputs ==
    UNION { CodecInputsFor(pv) : pv \in ParamVals }
    \cup
    { [ reserved |-> << >>, programData |-> p, tagLines |-> tl, versionByte |-> NCSFVersion,
        programHeaderSize |-> 4, programSizeOffset |-> 0, addHeaderSize |-> FALSE ] :
        p \in { << >> }, tl \in SeqsUpTo(TagLineVals, MaxTags) }

CodecInit ==
    /\ cin \in CodecInputs
    /\ cpc = "start"
    /\ file = << >>
    /\ outcome = None
    /\ program = << >>
    /\ psfTags = << >>
    /\ EngineIdle

CodecNext == MakeNCSF \/ GetProgramSectionFromPSF \/ GetTagsFromPSF

CodecSpec == CodecInit /\ [][CodecNext]_vars

\* header sizes read from disk: small ones and ones near 2^32
SizeVals == { W32(0), W32(1), W32(3), <<65535, 65520>>, <<65535, 65521>>, <<65535, 65535>> }
MagicVals == { PSFMagic, <<80, 83, 71>> }

RawFiles ==
    { Take(m \o <<v>> \o LE32(r) \o LE32(c) \o LE32(W32(0)) \o Zeros(MaxBufLen), n) :
        m \in MagicVals, v \in VersionVals, r \in SizeVals, c \in SizeVals,
        n \in 0 .. MaxBufLen }

ValidateInit ==
    /\ file \in RawFiles
    /\ cin = [ versionByte |-> NCSFVersion ]
    /\ cpc = "raw"
    /\ outcome = None
    /\ program = << >>
    /\ psfTags = << >>
    /\ EngineIdle

ValidateNext == Validate

ValidateSpec == ValidateInit /\ [][ValidateNext]_vars

(***************************************************************************)
(* Properties                                                              *)
(***************************************************************************)
\* elapsed = -1
IsUndetermined(v) == v.time = -10

\* the verdict the two passes amount to: Pass 2's result when Pass 2 returned
\* a determined one, Pass 1's result otherwise
FinalVerdict == IF ret2.type # "unset" /\ ~IsUndetermined(ret2) THEN ret2 ELSE ret1

WatchdogPcs == { "wd_start", "wd_lock", "wd_read", "wd_unlock", "wd_branch",
                 "wd_stoplock", "wd_stopwrite", "wd_stopunlock", "wd_stopjoin",
                 "wd_join", "wd_readlen", "wd_ret" }
StopPathPcs == { "wd_stoplock", "wd_stopwrite", "wd_stopunlock", "wd_stopjoin" }

\* C1: when the final verdict is undetermined, the TagList holds neither
\* `length` nor `fade` once GetTime has returned, whatever verbose is.
CE_C1_UndeterminedRemovesTags ==
    (pc = "done" /\ IsUndetermined(FinalVerdict))
        => (~TagExists(tags, "length") /\ ~TagExists(tags, "fade"))

\* C2: when the length thread itself cleared doLength (it finished before the
\* caller's stop request), the watchdog returns the thread's player->length.
CE_C2_WorkerResultReturned ==
    (pc = "wd_ret" /\ worker = "finished") => ret = player.length

\* C3: the caller touches doLength only while holding the mutex; the stop path
\* is taken only after loopCount polls saw doLength set, and there doLength is
\* cleared before the join and the join comes before the return of (-1, LOOP);
\* on every path the thread has ended before player->length is read and
\* before the watchdog returns.
T_C3_StopJoinReturnOrder ==
    /\ pc \in {"wd_read", "wd_stopwrite"} => mutex = "caller"
    /\ pc \in StopPathPcs => i = loopCount
    /\ (pc \in {"wd_join", "wd_readlen"}) => i < loopCount
    /\ pc = "wd_stopjoin" => ~player.doLength
    /\ pc \in {"wd_readlen", "wd_ret"} => worker \in {"finished", "cancelled"}
    /\ (pc = "wd_ret" /\ i = loopCount) => (ret = Time(-10, "LOOP") /\ ~player.doLength)
    /\ (pc = "wd_ret" /\ i < loopCount) => ret = player.length

W_C3_StoppedThenJoined ==
    pc = "wd_ret" /\ i = loopCount /\ worker = "cancelled" /\ ret = Time(-10, "LOOP")

\* C4: Pass 2 is started exactly when Pass 1 returned a determined time of
\* type END; Pass 1 runs with 20 polls and a ceiling of 6000s, Pass 2 with
\* note emission, 40 polls and a ceiling of Pass 1's time plus 30s; the final
\* verdict is Pass 2's result when Pass 2 ran and was determined, and Pass 1's
\* result otherwise.
T_C4_PassTwoIffOneShot ==
    /\ pass = 2 => (~IsUndetermined(ret1) /\ ret1.type = "END")
    /\ (pc \in {"derive", "done"} /\ ~IsUndetermined(ret1) /\ ret1.type = "END")
          => (pass = 2 /\ ret2.type # "unset")
    /\ (pc \in {"derive", "done"} /\ pass = 1) => ret2.type = "unset"
    /\ (pc \in WatchdogPcs /\ pass = 1)
          => (loopCount = 20 /\ player.maxSeconds = 60000 /\ ~player.doNotes)
    /\ (pc \in WatchdogPcs /\ pass = 2)
          => (loopCount = 40 /\ player.maxSeconds = ret1.time + 300 /\ player.doNotes)
    /\ pc = "derive" => length = FinalVerdict

W_C4_PassOneKept ==
    pc = "derive" /\ pass = 2 /\ IsUndetermined(ret2) /\ length = ret1

\* the whole seconds of an elapsed time: its ceiling, and 1 below one second
ExpectedSeconds(e) ==
    IF e < 10 THEN 1
    ELSE CHOOSE n \in 1 .. (e \div 10) + 1 : n * 10 >= e /\ (n - 1) * 10 < e

\* C5: when the final verdict is determined, `length` is the duration text of
\* the ceiling of the elapsed seconds, at least one second (12.3s gives 0:13),
\* and `fade` is the loop constant for LOOP and the one-shot constant otherwise.
T_C5_TagsOfDeterminedVerdict ==
    (pc = "done" /\ ~IsUndetermined(FinalVerdict)) =>
        /\ TagExists(tags, "length")
        /\ TagExists(tags, "fade")
        /\ tags["length"] = SecondsToString(ExpectedSeconds(FinalVerdict.time))
        /\ FinalVerdict.time = 123 => tags["length"] = "0:13"
        /\ FinalVerdict.time < 10 => tags["length"] = "0:01"
        /\ tags["fade"] = stringify(IF FinalVerdict.type = "LOOP" THEN arg.fadeLoop
                                                                 ELSE arg.fadeOneShot)

W_C5_KeptPassOneBelowOneSecond ==
    /\ pc = "done"
    /\ pass = 2
    /\ IsUndetermined(ret2)
    /\ ret1.time = 3
    /\ tags["length"] = "0:01"
    /\ tags["fade"] = stringify(arg.fadeOneShot)

\* C10: every table offset used while configuring Pass 2 is in range: the
\* BANK table is never indexed with 0xFFFF, nor is the WAVEARC table.
CE_C10_LookupsInRange ==
    /\ bankIndex \subseteq BankRange
    /\ waveIndex \subseteq WaveArcRange

HeaderMatches ==
    /\ SubSeq(file, 1, 3) = PSFMagic
    /\ file[4] = cin.versionByte

\* C6 as stated: every buffer of fewer than 16 bytes fails with a size error,
\* whatever its magic and version bytes.
CE_C6_SmallBufferSizeError ==
    (cpc = "checked" /\ Len(file) < 16) => outcome = "range_error"

\* C6 amended: every buffer of fewer than 4 bytes fails with a size error;
\* a buffer of 4 to 15 bytes fails with a format error when its magic or
\* version byte does not match, and with a size error when they match.
T_C6_SizeCheckPerStage ==
    cpc = "checked" =>
        /\ Len(file) < 4 => outcome = "range_error"
        /\ (Len(file) >= 4 /\ Len(file) < 16)
              => outcome = IF HeaderMatches THEN "range_error" ELSE "runtime_error"

W_C6_ShortBufferBadMagic ==
    cpc = "checked" /\ Len(file) = 3 /\ file # Take(PSFMagic, 3) /\ outcome = "range_error"

\* C9: when CheckForValidPSF returns without raising, the buffer length is at
\* least 16 + R + C, the sum taken in 32-bit unsigned arithmetic.
T_C9_LengthCoversSections ==
    (cpc = "checked" /\ outcome = "ok") =>
        ~LessThan32(Len(file),
                    Add32(Add32(W32(16), ReadLE32(file, 4)), ReadLE32(file, 8)))

W_C9_BothSectionsPresent ==
    /\ cpc = "checked"
    /\ outcome = "ok"
    /\ ~IsZero32(ReadLE32(file, 4))
    /\ ~IsZero32(ReadLE32(file, 8))

\* the size field of a program agrees with its length
SizeFieldMatches ==
    LET p == cin.programData IN
    /\ Len(p) >= cin.programHeaderSize
    /\ Len(p) = p[cin.programSizeOffset + 1] + 256 * p[cin.programSizeOffset + 2]
                + (IF cin.addHeaderSize THEN cin.programHeaderSize ELSE 0)
    /\ p[cin.programSizeOffset + 3] = 0
    /\ p[cin.programSizeOffset + 4] = 0

\* C7 as stated: a file built by MakeNCSF gives back the program bytes, for
\* every program byte string.
CE_C7_RoundTripAnyProgram ==
    (cpc = "extracted" /\ cin.versionByte = NCSFVersion)
        => (outcome = "ok" /\ program = cin.programData)

\* C7 amended: the file is accepted; an empty program comes back empty; a
\* program at least as long as the program header whose size field (plus the
\* header size when addHeaderSize is set) equals its length comes back exactly.
T_C7_RoundTripSizedProgram ==
    (cpc = "extracted" /\ cin.versionByte = NCSFVersion) =>
        /\ outcome = "ok"
        /\ cin.programData = << >> => program = << >>
        /\ (cin.programData # << >> /\ SizeFieldMatches) => program = cin.programData

W_C7_SizedProgramBack ==
    /\ cpc = "extracted"
    /\ cin.versionByte = NCSFVersion
    /\ cin.reserved # << >>
    /\ cin.addHeaderSize
    /\ Len(cin.programData) > cin.programHeaderSize
    /\ SizeFieldMatches
    /\ program = cin.programData

\* C8: the TagList GetTagsFromPSF returns has no empty name and no empty value.
CE_C8_NoEmptyNameOrValue ==
    cpc = "tagged" =>
        \A n \in DOMAIN psfTags : n # << >> /\ psfTags[n] # << >>

====
